---- MODULE Spec2Model ----
(***************************************************************************)
(* A model of twisted.conch.scripts.ckeygen: the run dispatcher and the    *)
(* four operations it selects (generate / _saveKey, printFingerprint,      *)
(* changePassPhrase, displayPublicKey), acting on a file system that holds *)
(* the private key file and its .pub sibling.                              *)
(*                                                                         *)
(* One invocation of the tool is a walk of pc from "start" to "done"; the  *)
(* steps are cut where the code talks to the operator or to the file       *)
(* system, because those are the states another process can observe.       *)
(* options["filename"] is always given (the path F), so the path prompts   *)
(* of _getKeyOrDefault are outside the model.                              *)
(*                                                                         *)
(* The module also models twisted/test/test_loopback.py: two line          *)
(* protocols joined by loopback.loopback, under its own specification      *)
(* LoopbackSpec; under Spec no test runs, under LoopbackSpec no tool runs. *)
(***************************************************************************)
EXTENDS Integers, Sequences, FiniteSets, TLC

VARIABLES
    argv,       \* the options as parsed from the command line of the invocation
    umask,      \* the process's file creation mask (never changes)
    options,    \* the options dictionary, which the operations update
    fs,         \* the files on disk: path -> [exists, content, mode]
    fsPre,      \* fs as it was when the current invocation started
    pc,         \* the position of the current invocation
    key,        \* the keys.Key object in memory
    result,     \* how the invocation ended: [how, status, message, failure]
    hist,       \* what the invocation did: prompts, serialization calls, writes
    runs        \* the number of invocations started so far

\* twisted/test/test_loopback.py: two protocols joined by loopback.loopback
VARIABLES
    test,               \* the test case: the protocols and what the server sends
    server,             \* s, the first protocol: [kind, lines, i]
    client,             \* c, the second protocol
    serverToClient,     \* the server's transport: [buffer, shouldLose]
    clientToServer,     \* the client's transport
    loop                \* the position of loopback.loopback

toolvars == <<argv, umask, options, fs, fsPre, pc, key, result, hist, runs>>
netvars == <<test, server, client, serverToClient, clientToServer, loop>>
vars == <<argv, umask, options, fs, fsPre, pc, key, result, hist, runs,
          test, server, client, serverToClient, clientToServer, loop>>

(***************************************************************************)
(* Bounds of the model.                                                    *)
(***************************************************************************)
MaxRounds == 2      \* mismatching passphrase rounds per invocation
MaxRuns == 2        \* invocations of the tool, one after the other
MaxGreeting == 2    \* lines the server sends when its connection is made

(***************************************************************************)
(* Values.                                                                 *)
(***************************************************************************)
NoneV == "None"                         \* Python's None
F == ".ssh/id"                          \* options["filename"]
PubPath(p) == IF p = ".ssh/id" THEN ".ssh/id.pub" ELSE ".ssh/id.pub.pub"   \* filename + ".pub"
Paths == {".ssh/id", ".ssh/id.pub"}
\* os.path.basename: the part of a path after its last "/"
basename(p) == IF p = ".ssh/id" THEN "id" ELSE IF p = ".ssh/id.pub" THEN "id.pub" ELSE p

Pass == {"", "a", "b"}                  \* what an operator can type at a hidden prompt
KeyTypes == {"RSA", "DSA", "EC", "Ed25519"}     \* keys.Key.type()

\* not x, for an option that is None or a string
Falsy(x) == x = NoneV \/ x = ""

(***************************************************************************)
(* File modes.                                                             *)
(***************************************************************************)
PrivateMode == 33152        \* 0o100600, the argument of fp.chmod
CreateMode == 438           \* 0o666, the mode open() asks for when it creates
PermMask == 4096            \* chmod keeps the bits below 0o10000
GroupOtherMask == 64        \* the group and other bits are those below 0o100

RECURSIVE BitAnd(_, _)
BitAnd(a, b) ==
    IF a = 0 \/ b = 0 THEN 0
    ELSE (a % 2) * (b % 2) + 2 * BitAnd(a \div 2, b \div 2)

\* the mode of a file that open() creates under the mask m: 0o666 & ~m
DefaultMode(m) == BitAnd(CreateMode, 511 - m)
\* the permission bits chmod(mode) sets
ChmodBits(mode) == mode % PermMask
\* the group and other bits of a mode
GroupOther(mode) == mode % GroupOtherMask
OwnerOnly(mode) == GroupOther(mode) = 0

(***************************************************************************)
(* twisted.conch.ssh.keys: the contents of key files, and Key.fromString / *)
(* Key.toString.  A blob is what a file holds: a private key (of a key id, *)
(* a type, a subtype, encrypted under enc; "" means not encrypted), a      *)
(* public key, or bytes that are no key.                                   *)
(***************************************************************************)
Garbage == [kind |-> "garbage", id |-> 0, type |-> "-", subtype |-> "-", enc |-> ""]
PrivBlob(k, st, p) ==
    [kind |-> "priv", id |-> k.id, type |-> k.type, subtype |-> st, enc |-> p]
PubBlob(k) ==
    [kind |-> "pub", id |-> k.id, type |-> k.type, subtype |-> "-", enc |-> ""]
SerError == [kind |-> "ValueError", id |-> 0, type |-> "-", subtype |-> "-", enc |-> ""]

NoKey == [id |-> 0, type |-> "-", public |-> FALSE]
Key(i, t) == [id |-> i, type |-> t, public |-> FALSE]
\* key.public()
Public(k) == [k EXCEPT !.public = TRUE]

\* key.toString("openssh", subtype=st, passphrase=p) of a private key:
\* the blob, or SerError where the library raises.
toString(k, st, p) ==
    IF st = "v1" THEN PrivBlob(k, "v1", IF Falsy(p) THEN "" ELSE p)
    ELSE IF st = "PEM" /\ k.type # "Ed25519"
         THEN PrivBlob(k, "PEM", IF Falsy(p) THEN "" ELSE p)
    ELSE SerError

\* Key.fromString(data, passphrase=p): [err, key]
fromString(data, p) ==
    IF data.kind = "pub"
    THEN [err |-> "ok", key |-> Public(Key(data.id, data.type))]
    ELSE IF data.kind # "priv"
    THEN [err |-> "BadKeyError", key |-> NoKey]
    ELSE IF data.enc = ""
    THEN [err |-> "ok", key |-> Key(data.id, data.type)]
    ELSE IF Falsy(p)
    THEN [err |-> "EncryptedKeyError", key |-> NoKey]
    ELSE IF p # data.enc
    THEN [err |-> "BadKeyError", key |-> NoKey]
    ELSE [err |-> "ok", key |-> Key(data.id, data.type)]

NoFile == [exists |-> FALSE, content |-> Garbage, mode |-> 0]
File(c, m) == [exists |-> TRUE, content |-> c, mode |-> m]

\* Key.fromFile(path, passphrase=p) on the disk d
fromFile(d, path, p) ==
    IF ~d[path].exists THEN [err |-> "FileNotFoundError", key |-> NoKey]
    ELSE fromString(d[path].content, p)

\* FilePath(path).setContent(c): the content goes to a new file created under
\* the process's mask, which then takes the place of path.
setContent(d, path, c, m) == [d EXCEPT ![path] = File(c, DefaultMode(m))]
\* FilePath(path).chmod(mode)
chmod(d, path, mode) == [d EXCEPT ![path].mode = ChmodBits(mode)]
\* open(path, "wb").write(c): an existing file keeps its mode
openWrite(d, path, c, m) ==
    [d EXCEPT ![path] = File(c, IF d[path].exists THEN d[path].mode ELSE DefaultMode(m))]

(***************************************************************************)
(* How an invocation ends.  sys.exit() ends with status 0 and no message,  *)
(* sys.exit(text) prints the text and ends with status 1, and an exception *)
(* nobody catches prints its traceback and ends with status 1.             *)
(***************************************************************************)
Running == [how |-> "running", status |-> 0, message |-> NoneV, failure |-> "none"]

Return ==
    /\ pc' = "done"
    /\ result' = [how |-> "return", status |-> 0, message |-> NoneV, failure |-> "none"]

SysExit(msg, why) ==
    /\ pc' = "done"
    /\ result' = [how |-> "exit", status |-> IF msg = NoneV THEN 0 ELSE 1,
                  message |-> msg, failure |-> why]

Raise(exc, why) ==
    /\ pc' = "done"
    /\ result' = [how |-> "exception", status |-> 1, message |-> exc, failure |-> why]

\* twisted.python.usage.Options.opt_help, the handler of --help: it prints
\* the usage text and ends the process itself with sys.exit(0); a statement
\* that follows a call of it is not reached.
opt_help ==
    /\ pc' = "done"
    /\ result' = [how |-> "exit", status |-> 0, message |-> "help", failure |-> "none"]

\* what is remembered of the invocation before this one
NoPrev == [op |-> "none", nopass |-> FALSE, returned |-> FALSE]

NoHist ==
    [op |-> "none", asked |-> FALSE, answer |-> <<>>, passPrompts |-> 0, attempts |-> 0,
     mismatches |-> 0, round |-> <<>>, ser |-> <<>>, wrote |-> {},
     loaded |-> NoneV, out |-> <<>>, prev |-> NoPrev]

(***************************************************************************)
(* The command line.                                                       *)
(***************************************************************************)
supportedKeyTypes == {"rsa", "dsa", "ecdsa", "ed25519"}
\* the type of the key each generator makes
GeneratedType(t) ==
    CASE t = "rsa" -> "RSA" [] t = "dsa" -> "DSA" [] t = "ecdsa" -> "EC"
      [] t = "ed25519" -> "Ed25519"
\* str.lower() on the type names an operator gives
Lower(t) == IF t = "RSA" THEN "rsa" ELSE t

TypeOptions == {NoneV, "rsa", "dsa", "ecdsa", "ed25519", "RSA", "foo"}
PassOptions == {NoneV, "a", "b"}
SubtypeOptions == {NoneV, "PEM", "v1"}
FormatOptions == {"md5-hex", "sha256-base64", "sha1"}
Umasks == {18, 63}                      \* 0o022 and 0o077

AllArgv ==
    [type : TypeOptions, fingerprint : BOOLEAN, changepass : BOOLEAN,
     showpub : BOOLEAN, pass : PassOptions, newpass : PassOptions,
     subtype : SubtypeOptions, nopass : BOOLEAN, format : FormatOptions]

\* The command lines of the model.  An option that the selected action never
\* reads is left at its default; a key type comes with all the options of
\* generate, or (Defaults) in upper case, or with the three action flags set.
Defaults(a) ==
    /\ a.pass = NoneV /\ a.newpass = NoneV /\ a.subtype = NoneV
    /\ ~a.nopass /\ a.format = "sha256-base64"
NoFlags(a) == ~a.fingerprint /\ ~a.changepass /\ ~a.showpub
AllFlags(a) == a.fingerprint /\ a.changepass /\ a.showpub

ArgvSet ==
    {a \in AllArgv :
        \/ /\ a.type \in supportedKeyTypes /\ NoFlags(a)
           /\ a.newpass = NoneV /\ a.pass # "b" /\ a.format # "md5-hex"
        \/ /\ a.type \in supportedKeyTypes \cup {"foo"} /\ AllFlags(a) /\ Defaults(a)
        \/ /\ a.type \in {"RSA", "foo"} /\ NoFlags(a) /\ Defaults(a)
        \/ /\ a.type = NoneV /\ a.fingerprint
           /\ a.newpass = NoneV /\ a.pass = NoneV /\ a.subtype = NoneV /\ ~a.nopass
        \/ /\ a.type = NoneV /\ ~a.fingerprint /\ a.changepass
           /\ ~a.nopass /\ a.format = "sha256-base64"
        \/ /\ a.type = NoneV /\ ~a.fingerprint /\ ~a.changepass
           /\ a.newpass = NoneV /\ a.subtype = NoneV
           /\ ~a.nopass /\ a.format = "sha256-base64"
           /\ (~a.showpub => a.pass = NoneV)}

OptionsOf(a) ==
    [pass |-> a.pass, newpass |-> a.newpass, subtype |-> a.subtype, format |-> a.format]

(***************************************************************************)
(* The disk before the first invocation.                                   *)
(***************************************************************************)
DiskKey(t) == Key(0, t)

IdFiles ==
    {NoFile, File(Garbage, 420),
     File(toString(DiskKey("RSA"), "PEM", ""), 420),
     File(toString(DiskKey("RSA"), "PEM", "a"), 384),
     File(toString(DiskKey("RSA"), "v1", "a"), 420),
     File(toString(DiskKey("Ed25519"), "v1", ""), 384),
     File(toString(DiskKey("Ed25519"), "v1", "a"), 420)}

\* the .pub sibling: none, the public key of the private file, or no key
PubFiles(f) ==
    IF f.content.kind = "priv"
    THEN {NoFile, File(PubBlob(Public(DiskKey(f.content.type))), 420)}
    ELSE {NoFile, File(PubBlob(Public(DiskKey("RSA"))), 420), File(Garbage, 420)}

(***************************************************************************)
(* test_loopback.py: SimpleProtocol, DoomProtocol and the two test cases,  *)
(* over twisted.protocols.loopback.  A transport is a relay that buffers   *)
(* what its protocol writes until loopback hands the buffer to the peer;   *)
(* a buffer is the sequence of the lines in it.  An endpoint is a protocol *)
(* p together with its transport t.                                        *)
(***************************************************************************)
DoomLimit == 3      \* if len(self.lines) >= 3

Kinds == {"SimpleProtocol", "DoomProtocol"}
Lines == {"THIS IS LINE ONE!", "DOOM LINE"}
Greetings == UNION {[1..n -> Lines] : n \in 0..MaxGreeting}

\* The test cases: which protocols s and c are, the lines sendALine sends and
\* whether it then loses the connection.  A DoomProtocol is greeted with at
\* most one line, as in testSneakyHiddenDoom.
Tests ==
    {t \in [server : Kinds, client : Kinds, greeting : Greetings, lose : BOOLEAN] :
        "DoomProtocol" \in {t.server, t.client} => Len(t.greeting) <= 1}

NoTest == [server |-> "none", client |-> "none", greeting |-> <<>>, lose |-> FALSE]

\* SimpleProtocol.__init__, and DoomProtocol's i = 0
NewProtocol(kind) == [kind |-> kind, lines |-> <<>>, i |-> 0]

\* LoopbackRelay(target)
NewRelay == [buffer |-> <<>>, shouldLose |-> FALSE]

\* LineReceiver.sendLine: transport.write(line + delimiter)
sendLine(t, line) == [t EXCEPT !.buffer = Append(@, line)]

\* LoopbackRelay.loseConnection
loseConnection(t) == [t EXCEPT !.shouldLose = TRUE]

\* "Hello %d" % self.i
Hello(n) == "Hello " \o ToString(n)

\* the line is logged twice
SimpleProtocol_lineReceived_twice(e, line) ==
    [e EXCEPT !.p.lines = Append(Append(@, line), line)]

\* SimpleProtocol.lineReceived
SimpleProtocol_lineReceived(e, line) == [e EXCEPT !.p.lines = Append(@, line)]

\* the connection is lost once more than 3 lines have been received
DoomProtocol_lineReceived_late(e, line) ==
    LET counted == [e EXCEPT !.p.i = @ + 1]
        answered == [counted EXCEPT !.t = sendLine(@, Hello(counted.p.i))]
        logged == SimpleProtocol_lineReceived(answered, line)
    IN IF Len(logged.p.lines) > DoomLimit
       THEN [logged EXCEPT !.t = loseConnection(@)]
       ELSE logged

\* DoomProtocol.lineReceived
DoomProtocol_lineReceived(e, line) ==
    LET counted == [e EXCEPT !.p.i = @ + 1]
        answered == [counted EXCEPT !.t = sendLine(@, Hello(counted.p.i))]
        logged == SimpleProtocol_lineReceived(answered, line)
    IN IF Len(logged.p.lines) >= DoomLimit
       THEN [logged EXCEPT !.t = loseConnection(@)]
       ELSE logged

lineReceived(e, line) ==
    IF e.p.kind = "DoomProtocol"
    THEN DoomProtocol_lineReceived(e, line)
    ELSE SimpleProtocol_lineReceived(e, line)

\* LineReceiver.dataReceived: lineReceived for each line of the data, in order
RECURSIVE dataReceived(_, _)
dataReceived(e, data) ==
    IF data = <<>> THEN e
    ELSE dataReceived(lineReceived(e, Head(data)), Tail(data))

\* sendALine, the callback the tests add to s.conn: s.sendLine for each line,
\* then (testRegularFunction) s.transport.loseConnection()
RECURSIVE sendLines(_, _)
sendLines(t, ls) ==
    IF ls = <<>> THEN t ELSE sendLines(sendLine(t, Head(ls)), Tail(ls))

sendALine(t, tc) ==
    IF tc.lose THEN loseConnection(sendLines(t, tc.greeting))
    ELSE sendLines(t, tc.greeting)

\* server.makeConnection(serverToClient): connectionMade fires s.conn, which
\* runs sendALine
loopback_makeServer ==
    /\ loop = "makeServer"
    /\ serverToClient' = sendALine(serverToClient, test)
    /\ loop' = "makeClient"
    /\ UNCHANGED <<test, server, client, clientToServer>>

\* client.makeConnection(clientToServer): connectionMade fires c.conn, which
\* has no callback
loopback_makeClient ==
    /\ loop = "makeClient"
    /\ loop' = "serverToClient"
    /\ UNCHANGED <<test, server, client, serverToClient, clientToServer>>

\* serverToClient.clearBuffer(): the client receives what the server wrote
serverToClient_clearBuffer ==
    /\ loop \in {"serverToClient", "lastClear"}
    /\ LET e == dataReceived([p |-> client, t |-> clientToServer], serverToClient.buffer)
       IN /\ client' = e.p
          /\ clientToServer' = e.t
    /\ serverToClient' = [serverToClient EXCEPT !.buffer = <<>>]
    /\ loop' = IF loop = "lastClear" THEN "returned" ELSE "clientToServer"
    /\ UNCHANGED <<test, server>>

\* clientToServer.clearBuffer(): the server receives what the client wrote
clientToServer_clearBuffer ==
    /\ loop = "clientToServer"
    /\ LET e == dataReceived([p |-> server, t |-> serverToClient], clientToServer.buffer)
       IN /\ server' = e.p
          /\ serverToClient' = e.t
    /\ clientToServer' = [clientToServer EXCEPT !.buffer = <<>>]
    /\ loop' = "shouldLose"
    /\ UNCHANGED <<test, client>>

\* if serverToClient.shouldLose: serverToClient.clearBuffer(); break
\* elif clientToServer.shouldLose: break
loopback_shouldLose ==
    /\ loop = "shouldLose"
    /\ loop' = IF serverToClient.shouldLose THEN "lastClear"
               ELSE IF clientToServer.shouldLose THEN "returned"
               ELSE "serverToClient"
    /\ UNCHANGED <<test, server, client, serverToClient, clientToServer>>

\* no test is running
NetIdle ==
    /\ test = NoTest
    /\ server = NewProtocol("none")
    /\ client = NewProtocol("none")
    /\ serverToClient = NewRelay
    /\ clientToServer = NewRelay
    /\ loop = "idle"

Init ==
    /\ NetIdle
    /\ argv \in ArgvSet
    /\ umask \in Umasks
    /\ options = OptionsOf(argv)
    /\ \E f \in IdFiles : \E g \in PubFiles(f) :
            fs = [p \in Paths |-> IF p = F THEN f ELSE g]
    /\ fsPre = fs
    /\ pc = "start"
    /\ key = NoKey
    /\ result = Running
    /\ hist = NoHist
    /\ runs = 1

(***************************************************************************)
(* run                                                                     *)
(***************************************************************************)
run ==
    /\ pc = "start"
    /\ IF ~Falsy(argv.type)
       THEN IF Lower(argv.type) \in supportedKeyTypes
            THEN /\ key' = Key(runs, GeneratedType(Lower(argv.type)))
                 /\ pc' = "saveKey"
                 /\ hist' = [hist EXCEPT !.op = "generate"]
                 /\ UNCHANGED result
            ELSE /\ SysExit("Key type was", "UnsupportedKeyType")
                 /\ UNCHANGED <<key, hist>>
       ELSE /\ UNCHANGED key
            /\ IF argv.fingerprint
               THEN /\ pc' = "printFingerprint"
                    /\ hist' = [hist EXCEPT !.op = "fingerprint"]
                    /\ UNCHANGED result
               ELSE IF argv.changepass
               THEN /\ pc' = "changePassPhrase"
                    /\ hist' = [hist EXCEPT !.op = "changepass"]
                    /\ UNCHANGED result
               ELSE IF argv.showpub
               THEN /\ pc' = "displayPublicKey"
                    /\ hist' = [hist EXCEPT !.op = "showpub"]
                    /\ UNCHANGED result
               ELSE opt_help /\ UNCHANGED hist
    /\ UNCHANGED <<argv, umask, options, fs, fsPre, runs>>

(***************************************************************************)
(* Helpers of the operations.                                              *)
(***************************************************************************)
\* _defaultPrivateKeySubtype without the Ed25519 case
defaultPrivateKeySubtype_pem(keyType) == "PEM"

\* _defaultPrivateKeySubtype(keyType)
defaultPrivateKeySubtype(keyType) ==
    IF keyType = "Ed25519" THEN "v1" ELSE "PEM"

\* resolveSubtype that overrides what the caller specified
resolveSubtype_default(opt, keyType) == defaultPrivateKeySubtype(keyType)

\* if options.get("private-key-subtype") is None: options[...] = the default
resolveSubtype(opt, keyType) ==
    IF opt = NoneV THEN defaultPrivateKeySubtype(keyType) ELSE opt

\* enumrepresentation(options): the fingerprint format, or the exception
enumrepresentation(fmt) ==
    IF fmt = "md5-hex" THEN "MD5_HEX"
    ELSE IF fmt = "sha256-base64" THEN "SHA256_BASE64"
    ELSE "BadFingerPrintFormat"

\* What an operator can answer to "Overwrite (y/n)? ", as sequences of
\* characters; <<>> is the empty line.
Answers == {<<>>, <<"y">>, <<"Y", "e", "s">>, <<"n">>, <<" ", "y">>}
\* str.lower() on one character of an answer
LowerChar(c) == IF c = "Y" THEN "y" ELSE c

\* a round that ends the loop whatever was typed
roundAccepts_any(p1, p2) == TRUE

\* One round of the two hidden passphrase prompts: p1 == p2 ends the loop.
roundAccepts(p1, p2) == p1 = p2

\* hist after a call of key.toString on the private key
Serialized(h, k, st, p) ==
    [h EXCEPT !.ser = Append(@, [type |-> k.type, subtype |-> st, pass |-> p])]

(***************************************************************************)
(* generate: the generator made the key, _saveKey persists it.             *)
(***************************************************************************)
\* if os.path.exists(filename): ask
saveKey_exists ==
    /\ pc = "saveKey"
    /\ pc' = IF fs[F].exists THEN "saveKey_overwrite" ELSE "saveKey_passphrase"
    /\ UNCHANGED <<argv, umask, options, fs, fsPre, key, result, hist, runs>>

\* yn = inputCollector("Overwrite (y/n)? "); if yn[0].lower() != "y": sys.exit()
saveKey_overwrite(yn) ==
    /\ pc = "saveKey_overwrite"
    /\ hist' = [hist EXCEPT !.asked = TRUE, !.answer = yn]
    /\ IF Len(yn) = 0
       THEN Raise("IndexError", "IndexError")
       ELSE IF LowerChar(yn[1]) # "y"
       THEN SysExit(NoneV, "none")
       ELSE pc' = "saveKey_passphrase" /\ UNCHANGED result
    /\ UNCHANGED <<argv, umask, options, fs, fsPre, key, runs>>

\* a passphrase given with --pass wins over --no-passphrase
saveKey_passphrase_passfirst ==
    /\ pc = "saveKey_passphrase"
    /\ IF ~Falsy(options.pass)
       THEN pc' = "saveKey_private" /\ UNCHANGED options
       ELSE IF argv.nopass
       THEN options' = [options EXCEPT !.pass = ""] /\ pc' = "saveKey_private"
       ELSE pc' = "saveKey_prompt" /\ UNCHANGED options
    /\ UNCHANGED <<argv, umask, fs, fsPre, key, result, hist, runs>>

\* if options.get("no-passphrase"): ... elif not options["pass"]: prompt
saveKey_passphrase ==
    /\ pc = "saveKey_passphrase"
    /\ IF argv.nopass
       THEN options' = [options EXCEPT !.pass = ""] /\ pc' = "saveKey_private"
       ELSE IF Falsy(options.pass)
       THEN pc' = "saveKey_prompt" /\ UNCHANGED options
       ELSE pc' = "saveKey_private" /\ UNCHANGED options
    /\ UNCHANGED <<argv, umask, fs, fsPre, key, result, hist, runs>>

\* one turn of the while 1 loop: two hidden prompts
saveKey_prompt(p1, p2) ==
    /\ pc = "saveKey_prompt"
    /\ IF roundAccepts(p1, p2)
       THEN /\ options' = [options EXCEPT !.pass = p1]
            /\ hist' = [hist EXCEPT !.round = <<p1, p2>>]
            /\ pc' = "saveKey_private"
       ELSE /\ hist.mismatches < MaxRounds
            /\ hist' = [hist EXCEPT !.mismatches = @ + 1]
            /\ UNCHANGED <<options, pc>>
    /\ UNCHANGED <<argv, umask, fs, fsPre, key, result, runs>>

\* the subtype default, key.toString and fp.setContent
saveKey_private(ioOk) ==
    /\ pc = "saveKey_private"
    /\ LET st == resolveSubtype(options.subtype, key.type)
           data == toString(key, st, options.pass)
       IN /\ options' = [options EXCEPT !.subtype = st]
          /\ IF data = SerError
             THEN /\ hist' = Serialized(hist, key, st, options.pass)
                  /\ Raise("ValueError", "SerializationError")
                  /\ UNCHANGED fs
             ELSE IF ~ioOk
             THEN /\ hist' = Serialized(hist, key, st, options.pass)
                  /\ Raise("OSError", "IOError")
                  /\ UNCHANGED fs
             ELSE /\ hist' = [Serialized(hist, key, st, options.pass)
                                EXCEPT !.wrote = @ \cup {F}]
                  /\ fs' = setContent(fs, F, data, umask)
                  /\ pc' = "saveKey_chmod"
                  /\ UNCHANGED result
    /\ UNCHANGED <<argv, umask, fsPre, key, runs>>

\* saveKey_chmod without the chmod
saveKey_chmod_skipped ==
    /\ pc = "saveKey_chmod"
    /\ pc' = "saveKey_public"
    /\ UNCHANGED <<argv, umask, options, fs, fsPre, key, result, hist, runs>>

\* fp.chmod(0o100600)
saveKey_chmod ==
    /\ pc = "saveKey_chmod"
    /\ fs' = chmod(fs, F, PrivateMode)
    /\ pc' = "saveKey_public"
    /\ UNCHANGED <<argv, umask, options, fsPre, key, result, hist, runs>>

\* a .pub file that is already there is kept as it is
saveKey_public_keep(ioOk) ==
    /\ pc = "saveKey_public"
    /\ IF ~ioOk
       THEN Raise("OSError", "IOError") /\ UNCHANGED <<fs, hist>>
       ELSE /\ fs' = IF fs[PubPath(F)].exists THEN fs
                     ELSE setContent(fs, PubPath(F), PubBlob(Public(key)), umask)
            /\ hist' = [hist EXCEPT !.wrote = @ \cup {PubPath(F)}]
            /\ pc' = "saveKey_report"
            /\ UNCHANGED result
    /\ UNCHANGED <<argv, umask, options, fsPre, key, runs>>

\* a failed write of the .pub file takes the new private file away again
saveKey_public_rollback(ioOk) ==
    /\ pc = "saveKey_public"
    /\ IF ~ioOk
       THEN /\ Raise("OSError", "IOError")
            /\ fs' = [fs EXCEPT ![F] = NoFile]
            /\ UNCHANGED hist
       ELSE /\ fs' = setContent(fs, PubPath(F), PubBlob(Public(key)), umask)
            /\ hist' = [hist EXCEPT !.wrote = @ \cup {PubPath(F)}]
            /\ pc' = "saveKey_report"
            /\ UNCHANGED result
    /\ UNCHANGED <<argv, umask, options, fsPre, key, runs>>

\* filepath.FilePath(filename + ".pub").setContent(key.public().toString(...))
saveKey_public(ioOk) ==
    /\ pc = "saveKey_public"
    /\ IF ~ioOk
       THEN Raise("OSError", "IOError") /\ UNCHANGED <<fs, hist>>
       ELSE /\ fs' = setContent(fs, PubPath(F), PubBlob(Public(key)), umask)
            /\ hist' = [hist EXCEPT !.wrote = @ \cup {PubPath(F)}]
            /\ pc' = "saveKey_report"
            /\ UNCHANGED result
    /\ UNCHANGED <<argv, umask, options, fsPre, key, runs>>

\* options = enumrepresentation(options) and the four prints
saveKey_report ==
    /\ pc = "saveKey_report"
    /\ LET fmt == enumrepresentation(options.format)
       IN IF fmt = "BadFingerPrintFormat"
          THEN Raise("BadFingerPrintFormat", "UnsupportedFingerprintFormat")
               /\ UNCHANGED options
          ELSE Return /\ options' = [options EXCEPT !.format = fmt]
    /\ UNCHANGED <<argv, umask, fs, fsPre, key, hist, runs>>

(***************************************************************************)
(* changePassPhrase                                                        *)
(***************************************************************************)
\* key = keys.Key.fromFile(filename), and the handlers of the outer try
changePassPhrase_load ==
    /\ pc = "changePassPhrase"
    /\ LET r == fromFile(fs, F, NoneV)
       IN CASE r.err = "ok" ->
                 key' = r.key /\ pc' = "changePassPhrase_newpass" /\ UNCHANGED result
            [] r.err = "EncryptedKeyError" ->
                 /\ pc' = IF Falsy(options.pass) THEN "changePassPhrase_old"
                          ELSE "changePassPhrase_load2"
                 /\ UNCHANGED <<key, result>>
            [] r.err = "BadKeyError" ->
                 SysExit("Could not change passphrase", "BadKeyFormat") /\ UNCHANGED key
            [] r.err = "FileNotFoundError" ->
                 SysExit("could not be opened", "KeyFileNotFound") /\ UNCHANGED key
    /\ hist' = [hist EXCEPT !.loaded = F]
    /\ UNCHANGED <<argv, umask, options, fs, fsPre, runs>>

\* options["pass"] = getpass.getpass("Enter old passphrase: ")
changePassPhrase_old(p) ==
    /\ pc = "changePassPhrase_old"
    /\ options' = [options EXCEPT !.pass = p]
    /\ hist' = [hist EXCEPT !.passPrompts = @ + 1]
    /\ pc' = "changePassPhrase_load2"
    /\ UNCHANGED <<argv, umask, fs, fsPre, key, result, runs>>

\* changePassPhrase_load2 that asks for the old passphrase again when it was
\* wrong
changePassPhrase_load2_retry ==
    /\ pc = "changePassPhrase_load2"
    /\ hist' = [hist EXCEPT !.attempts = @ + 1]
    /\ LET r == fromFile(fs, F, options.pass)
       IN IF r.err = "ok"
          THEN key' = r.key /\ pc' = "changePassPhrase_newpass" /\ UNCHANGED result
          ELSE IF hist.attempts < 2
          THEN pc' = "changePassPhrase_old" /\ UNCHANGED <<key, result>>
          ELSE SysExit("old passphrase error", "WrongPassphrase") /\ UNCHANGED key
    /\ UNCHANGED <<argv, umask, options, fs, fsPre, runs>>

\* key = keys.Key.fromFile(filename, passphrase=options["pass"]), and the
\* handlers of the inner try
changePassPhrase_load2 ==
    /\ pc = "changePassPhrase_load2"
    /\ hist' = [hist EXCEPT !.attempts = @ + 1]
    /\ LET r == fromFile(fs, F, options.pass)
       IN CASE r.err = "ok" ->
                 key' = r.key /\ pc' = "changePassPhrase_newpass" /\ UNCHANGED result
            [] r.err = "BadKeyError" ->
                 SysExit("old passphrase error", "WrongPassphrase") /\ UNCHANGED key
            [] r.err = "EncryptedKeyError" ->
                 SysExit("Could not change passphrase", "EncryptedKeyNeedsPassphrase")
                 /\ UNCHANGED key
            [] OTHER ->
                 Raise(r.err, "KeyFileNotFound") /\ UNCHANGED key
    /\ UNCHANGED <<argv, umask, options, fs, fsPre, runs>>

\* if not options.get("newpass"): prompt
changePassPhrase_newpass ==
    /\ pc = "changePassPhrase_newpass"
    /\ pc' = IF Falsy(options.newpass) THEN "changePassPhrase_prompt"
             ELSE "changePassPhrase_write"
    /\ UNCHANGED <<argv, umask, options, fs, fsPre, key, result, hist, runs>>

\* one turn of the while 1 loop: two hidden prompts
changePassPhrase_prompt(p1, p2) ==
    /\ pc = "changePassPhrase_prompt"
    /\ IF roundAccepts(p1, p2)
       THEN /\ options' = [options EXCEPT !.newpass = p1]
            /\ hist' = [hist EXCEPT !.round = <<p1, p2>>]
            /\ pc' = "changePassPhrase_write"
       ELSE /\ hist.mismatches < MaxRounds
            /\ hist' = [hist EXCEPT !.mismatches = @ + 1]
            /\ UNCHANGED <<options, pc>>
    /\ UNCHANGED <<argv, umask, fs, fsPre, key, result, runs>>

\* a re-parse whose failure is ignored
roundTrips_unchecked(newkeydata, p) == TRUE

\* keys.Key.fromString(newkeydata, passphrase=options["newpass"]) raises
\* neither EncryptedKeyError nor BadKeyError
roundTrips(newkeydata, p) == fromString(newkeydata, p).err = "ok"

\* changePassPhrase_write as write-then-verify: the file is written before the
\* re-parse
changePassPhrase_write_first(corrupt, ioOk) ==
    /\ pc = "changePassPhrase_write"
    /\ LET st == resolveSubtype(options.subtype, key.type)
           made == toString(key, st, options.newpass)
           newkeydata == IF corrupt THEN Garbage ELSE made
       IN /\ options' = [options EXCEPT !.subtype = st]
          /\ IF made = SerError
             THEN /\ hist' = Serialized(hist, key, st, options.newpass)
                  /\ SysExit("Could not change passphrase", "SerializationError")
                  /\ UNCHANGED fs
             ELSE IF ~ioOk
             THEN /\ hist' = Serialized(hist, key, st, options.newpass)
                  /\ Raise("OSError", "IOError")
                  /\ UNCHANGED fs
             ELSE /\ hist' = [Serialized(hist, key, st, options.newpass)
                                EXCEPT !.wrote = @ \cup {F}]
                  /\ fs' = openWrite(fs, F, newkeydata, umask)
                  /\ IF roundTrips(newkeydata, options.newpass)
                     THEN Return
                     ELSE SysExit("Could not change passphrase", "SerializationError")
    /\ UNCHANGED <<argv, umask, fsPre, key, runs>>

\* the .pub sibling is rewritten along with the private file
changePassPhrase_write_both(corrupt, ioOk) ==
    /\ pc = "changePassPhrase_write"
    /\ LET st == resolveSubtype(options.subtype, key.type)
           made == toString(key, st, options.newpass)
           newkeydata == IF corrupt THEN Garbage ELSE made
       IN /\ options' = [options EXCEPT !.subtype = st]
          /\ IF made = SerError \/ ~roundTrips(newkeydata, options.newpass)
             THEN /\ hist' = Serialized(hist, key, st, options.newpass)
                  /\ SysExit("Could not change passphrase", "SerializationError")
                  /\ UNCHANGED fs
             ELSE IF ~ioOk
             THEN /\ hist' = Serialized(hist, key, st, options.newpass)
                  /\ Raise("OSError", "IOError")
                  /\ UNCHANGED fs
             ELSE /\ hist' = [Serialized(hist, key, st, options.newpass)
                                EXCEPT !.wrote = @ \cup {F}]
                  /\ fs' = setContent(openWrite(fs, F, newkeydata, umask),
                                      PubPath(F), PubBlob(Public(key)), umask)
                  /\ Return
    /\ UNCHANGED <<argv, umask, fsPre, key, runs>>

\* The subtype default, key.toString, the re-parse of its result, and the
\* write.  corrupt is a serializer that returns bytes that are no key (the
\* round-trip failure the verification is there for); ioOk is whether the
\* file can be opened for writing.
changePassPhrase_write(corrupt, ioOk) ==
    /\ pc = "changePassPhrase_write"
    /\ LET st == resolveSubtype(options.subtype, key.type)
           made == toString(key, st, options.newpass)
           newkeydata == IF corrupt THEN Garbage ELSE made
       IN /\ options' = [options EXCEPT !.subtype = st]
          /\ IF made = SerError
             THEN /\ hist' = Serialized(hist, key, st, options.newpass)
                  /\ SysExit("Could not change passphrase", "SerializationError")
                  /\ UNCHANGED fs
             ELSE IF ~roundTrips(newkeydata, options.newpass)
             THEN /\ hist' = Serialized(hist, key, st, options.newpass)
                  /\ SysExit("Could not change passphrase", "SerializationError")
                  /\ UNCHANGED fs
             ELSE IF ~ioOk
             THEN /\ hist' = Serialized(hist, key, st, options.newpass)
                  /\ Raise("OSError", "IOError")
                  /\ UNCHANGED fs
             ELSE /\ hist' = [Serialized(hist, key, st, options.newpass)
                                EXCEPT !.wrote = @ \cup {F}]
                  /\ fs' = openWrite(fs, F, newkeydata, umask)
                  /\ Return
    /\ UNCHANGED <<argv, umask, fsPre, key, runs>>

(***************************************************************************)
(* printFingerprint                                                        *)
(***************************************************************************)
\* sys.exit() in the place of sys.exit("bad key")
exitBadKey_silent == SysExit(NoneV, "BadKeyFormat")

\* except keys.BadKeyError: sys.exit("bad key")
exitBadKey == SysExit("bad key", "BadKeyFormat")

\* the private file is fingerprinted even when it has a .pub sibling
fingerprintFile_private(d) == F

\* filename = options["filename"]
\* if os.path.exists(filename + ".pub"): filename += ".pub"
fingerprintFile(d) == IF d[PubPath(F)].exists THEN PubPath(F) ELSE F

printFingerprint ==
    /\ pc = "printFingerprint"
    /\ LET filename == fingerprintFile(fs)
           fmt == enumrepresentation(options.format)
           r == fromFile(fs, filename, NoneV)
       IN IF fmt = "BadFingerPrintFormat"
          THEN /\ Raise("BadFingerPrintFormat", "UnsupportedFingerprintFormat")
               /\ UNCHANGED <<options, hist>>
          ELSE /\ options' = [options EXCEPT !.format = fmt]
               /\ CASE r.err = "ok" ->
                         /\ hist' = [hist EXCEPT !.loaded = filename,
                                        !.out = <<"fingerprint", fmt, r.key.id,
                                                 basename(filename)>>]
                         /\ Return
                    [] r.err = "BadKeyError" ->
                         /\ hist' = [hist EXCEPT !.loaded = filename]
                         /\ exitBadKey
                    [] r.err = "FileNotFoundError" ->
                         /\ hist' = [hist EXCEPT !.loaded = filename]
                         /\ SysExit("could not be opened", "KeyFileNotFound")
                    [] OTHER ->
                         /\ hist' = [hist EXCEPT !.loaded = filename]
                         /\ Raise(r.err, "EncryptedKeyNeedsPassphrase")
    /\ UNCHANGED <<argv, umask, fs, fsPre, key, runs>>

(***************************************************************************)
(* displayPublicKey                                                        *)
(***************************************************************************)
\* print(key.public().toString("openssh").decode("ascii"))
Displayed(h, k) == [h EXCEPT !.out = <<"public", "openssh", k.id, F>>]

\* the public key is also saved to the .pub sibling
displayPublicKey_load_saving ==
    /\ pc = "displayPublicKey"
    /\ LET r == fromFile(fs, F, NoneV)
       IN CASE r.err = "ok" ->
                 /\ key' = r.key
                 /\ hist' = Displayed([hist EXCEPT !.loaded = F], r.key)
                 /\ fs' = setContent(fs, PubPath(F), PubBlob(Public(r.key)), umask)
                 /\ Return
            [] r.err = "FileNotFoundError" ->
                 /\ SysExit("could not be opened", "KeyFileNotFound")
                 /\ hist' = [hist EXCEPT !.loaded = F]
                 /\ UNCHANGED <<key, fs>>
            [] r.err = "EncryptedKeyError" ->
                 /\ pc' = IF Falsy(options.pass) THEN "displayPublicKey_prompt"
                          ELSE "displayPublicKey_load2"
                 /\ hist' = [hist EXCEPT !.loaded = F]
                 /\ UNCHANGED <<key, result, fs>>
            [] OTHER ->
                 /\ Raise(r.err, "BadKeyFormat")
                 /\ hist' = [hist EXCEPT !.loaded = F]
                 /\ UNCHANGED <<key, fs>>
    /\ UNCHANGED <<argv, umask, options, fsPre, runs>>

\* key = keys.Key.fromFile(filename), and the handlers of the try
displayPublicKey_load ==
    /\ pc = "displayPublicKey"
    /\ LET r == fromFile(fs, F, NoneV)
       IN CASE r.err = "ok" ->
                 /\ key' = r.key
                 /\ hist' = Displayed([hist EXCEPT !.loaded = F], r.key)
                 /\ Return
            [] r.err = "FileNotFoundError" ->
                 /\ SysExit("could not be opened", "KeyFileNotFound")
                 /\ hist' = [hist EXCEPT !.loaded = F]
                 /\ UNCHANGED key
            [] r.err = "EncryptedKeyError" ->
                 /\ pc' = IF Falsy(options.pass) THEN "displayPublicKey_prompt"
                          ELSE "displayPublicKey_load2"
                 /\ hist' = [hist EXCEPT !.loaded = F]
                 /\ UNCHANGED <<key, result>>
            [] OTHER ->
                 /\ Raise(r.err, "BadKeyFormat")
                 /\ hist' = [hist EXCEPT !.loaded = F]
                 /\ UNCHANGED key
    /\ UNCHANGED <<argv, umask, options, fs, fsPre, runs>>

\* options["pass"] = getpass.getpass("Enter passphrase: ")
displayPublicKey_prompt(p) ==
    /\ pc = "displayPublicKey_prompt"
    /\ options' = [options EXCEPT !.pass = p]
    /\ hist' = [hist EXCEPT !.passPrompts = @ + 1]
    /\ pc' = "displayPublicKey_load2"
    /\ UNCHANGED <<argv, umask, fs, fsPre, key, result, runs>>

\* key = keys.Key.fromFile(filename, passphrase=options["pass"]), in the
\* handler: what it raises nobody catches
displayPublicKey_load2 ==
    /\ pc = "displayPublicKey_load2"
    /\ LET r == fromFile(fs, F, options.pass)
       IN CASE r.err = "ok" ->
                 /\ key' = r.key
                 /\ hist' = Displayed([hist EXCEPT !.attempts = @ + 1], r.key)
                 /\ Return
            [] r.err = "BadKeyError" ->
                 /\ Raise(r.err, "WrongPassphrase")
                 /\ hist' = [hist EXCEPT !.attempts = @ + 1]
                 /\ UNCHANGED key
            [] OTHER ->
                 /\ Raise(r.err, "EncryptedKeyNeedsPassphrase")
                 /\ hist' = [hist EXCEPT !.attempts = @ + 1]
                 /\ UNCHANGED key
    /\ UNCHANGED <<argv, umask, options, fs, fsPre, runs>>

(***************************************************************************)
(* The operator runs the tool again, with the same command line, on the    *)
(* disk the last invocation left.                                          *)
(***************************************************************************)
Previous ==
    [op |-> hist.op, nopass |-> argv.nopass, returned |-> result.how = "return"]

invoke ==
    /\ pc = "done"
    /\ runs < MaxRuns
    /\ runs' = runs + 1
    /\ pc' = "start"
    /\ options' = OptionsOf(argv)
    /\ fsPre' = fs
    /\ key' = NoKey
    /\ result' = Running
    /\ hist' = [NoHist EXCEPT !.prev = Previous]
    /\ UNCHANGED <<argv, umask, fs>>

\* ckeygen -y [-P pass]
ShowpubArgv ==
    {a \in ArgvSet : a.type = NoneV /\ ~a.fingerprint /\ ~a.changepass /\ a.showpub}

\* After generate has returned, the operator asks for the public key of the
\* file it wrote.
invoke_showpub(a) ==
    /\ pc = "done"
    /\ runs < MaxRuns
    /\ hist.op = "generate"
    /\ result.how = "return"
    /\ runs' = runs + 1
    /\ pc' = "start"
    /\ argv' = a
    /\ options' = OptionsOf(a)
    /\ fsPre' = fs
    /\ key' = NoKey
    /\ result' = Running
    /\ hist' = [NoHist EXCEPT !.prev = Previous]
    /\ UNCHANGED <<umask, fs>>

Next ==
    \/ run /\ UNCHANGED netvars
    \/ saveKey_exists /\ UNCHANGED netvars
    \/ \E yn \in Answers : saveKey_overwrite(yn) /\ UNCHANGED netvars
    \/ saveKey_passphrase /\ UNCHANGED netvars
    \/ \E p1, p2 \in Pass : saveKey_prompt(p1, p2) /\ UNCHANGED netvars
    \/ \E ioOk \in BOOLEAN : saveKey_private(ioOk) /\ UNCHANGED netvars
    \/ saveKey_chmod /\ UNCHANGED netvars
    \/ \E ioOk \in BOOLEAN : saveKey_public(ioOk) /\ UNCHANGED netvars
    \/ saveKey_report /\ UNCHANGED netvars
    \/ changePassPhrase_load /\ UNCHANGED netvars
    \/ \E p \in Pass : changePassPhrase_old(p) /\ UNCHANGED netvars
    \/ changePassPhrase_load2 /\ UNCHANGED netvars
    \/ changePassPhrase_newpass /\ UNCHANGED netvars
    \/ \E p1, p2 \in Pass : changePassPhrase_prompt(p1, p2) /\ UNCHANGED netvars
    \/ \E corrupt, ioOk \in BOOLEAN : changePassPhrase_write(corrupt, ioOk) /\ UNCHANGED netvars
    \/ printFingerprint /\ UNCHANGED netvars
    \/ displayPublicKey_load /\ UNCHANGED netvars
    \/ \E p \in Pass : displayPublicKey_prompt(p) /\ UNCHANGED netvars
    \/ displayPublicKey_load2 /\ UNCHANGED netvars
    \/ invoke /\ UNCHANGED netvars
    \/ \E a \in ShowpubArgv : invoke_showpub(a) /\ UNCHANGED netvars

Spec == Init /\ [][Next]_vars

(***************************************************************************)
(* The loopback tests: no tool runs; s and c are made for one test case    *)
(* and loopback.loopback(s, c) is called.  loopback is a loop in one       *)
(* thread, so it keeps taking its next step until it returns.              *)
(***************************************************************************)
ToolIdle ==
    /\ argv = CHOOSE a \in ArgvSet : a.type = NoneV /\ NoFlags(a)
    /\ umask = 18
    /\ options = OptionsOf(argv)
    /\ fs = [p \in Paths |-> NoFile]
    /\ fsPre = fs
    /\ pc = "idle"
    /\ key = NoKey
    /\ result = Running
    /\ hist = NoHist
    /\ runs = 0

LoopbackInit ==
    /\ ToolIdle
    /\ test \in Tests
    /\ server = NewProtocol(test.server)
    /\ client = NewProtocol(test.client)
    /\ serverToClient = NewRelay
    /\ clientToServer = NewRelay
    /\ loop = "makeServer"

LoopbackNext ==
    \/ loopback_makeServer /\ UNCHANGED toolvars
    \/ loopback_makeClient /\ UNCHANGED toolvars
    \/ serverToClient_clearBuffer /\ UNCHANGED toolvars
    \/ clientToServer_clearBuffer /\ UNCHANGED toolvars
    \/ loopback_shouldLose /\ UNCHANGED toolvars

LoopbackSpec == LoopbackInit /\ [][LoopbackNext]_vars /\ WF_vars(LoopbackNext)

(***************************************************************************)
(* The claims.                                                             *)
(***************************************************************************)
Generating == hist.op = "generate"
Changing == hist.op = "changepass"
Succeeded == pc = "done" /\ result.how = "return"
\* the invocation ended in an error: a message and a status that is not 0
Failed ==
    /\ pc = "done"
    /\ result.how \in {"exit", "exception"}
    /\ result.status # 0
    /\ result.message # NoneV

\* C1: while generate runs, from the moment it has put the private key at the
\* target path, the file's mode grants nothing to group or other.  The code
\* creates the file under the process's mask and restricts it in a second
\* step, so under a mask such as 0o022 the claim is violated between the two.
C1_NoReadableWindow ==
    (Generating /\ F \in hist.wrote) => OwnerOnly(fs[F].mode)

\* C2: changePassPhrase writes the file only after the new bytes parsed again
\* with the new passphrase; when serialization or the re-parse fails the
\* invocation ends in an error and the file at path is what it was before.
C2_VerifyBeforeWrite ==
    Changing =>
        /\ (F \in hist.wrote =>
                /\ fs[F].exists
                /\ fromString(fs[F].content, options.newpass).err = "ok")
        /\ (hist.ser # <<>> /\ ~Succeeded => fs[F] = fsPre[F])
        /\ (result.failure = "SerializationError" => Failed /\ fs = fsPre)

\* C2's case: the serializer produced bytes for a valid subtype, the re-parse
\* of them failed, and the invocation has ended.
C2_Witness ==
    /\ Changing
    /\ pc = "done"
    /\ result.failure = "SerializationError"
    /\ hist.ser # <<>>
    /\ toString(key, hist.ser[1].subtype, hist.ser[1].pass) # SerError
    /\ fsPre[F].content.enc = "a"

\* an answer to the overwrite prompt that starts with y or Y
IsYes(yn) == Len(yn) > 0 /\ yn[1] \in {"y", "Y"}

\* C3: in generate, every answer to the overwrite prompt that is not
\* affirmative, the empty answer included, ends the invocation by exiting with
\* no file written; files are written only after an affirmative answer.  The
\* code indexes yn[0] of the empty answer, which raises IndexError instead.
C3_RefusalExits ==
    Generating =>
        /\ (hist.asked /\ ~IsYes(hist.answer) =>
                pc = "done" /\ result.how = "exit" /\ fs = fsPre)
        /\ (hist.wrote # {} /\ fsPre[F].exists => hist.asked /\ IsYes(hist.answer))

\* C4: when generate returns, the private key file has mode 0o600, be it new
\* or an existing file with a wider mode that was overwritten.
C4_OwnerOnlyOnReturn ==
    (Generating /\ Succeeded) =>
        /\ fs[F].exists
        /\ OwnerOnly(fs[F].mode)
        /\ fs[F].mode = 384

\* C4's case: generate returned after overwriting a file of mode 0o644 under
\* the mask 0o022.
C4_Witness ==
    /\ Generating
    /\ Succeeded
    /\ fsPre[F].exists
    /\ fsPre[F].mode = 420
    /\ umask = 18
    /\ hist.asked

\* the passphrase policy is the interactive one
Interactive ==
    \/ Generating /\ ~argv.nopass /\ Falsy(argv.pass)
    \/ Changing /\ Falsy(argv.newpass)
\* the passphrase the operation settled on
Accepted == IF Generating THEN options.pass ELSE options.newpass
Prompting == pc \in {"saveKey_prompt", "changePassPhrase_prompt"}

C5_Inv ==
    (Generating \/ Changing) =>
        /\ (hist.round # <<>> =>
                /\ Interactive
                /\ hist.round[1] = hist.round[2]
                /\ Accepted = hist.round[1])
        /\ (Interactive /\ hist.ser # <<>> =>
                /\ hist.round # <<>>
                /\ hist.ser[1].pass = hist.round[1])
        /\ (Prompting => fs = fsPre /\ hist.wrote = {} /\ hist.ser = <<>>)
        /\ (hist.round = <<"", "">> /\ F \in hist.wrote =>
                fs[F].content.kind = "priv" /\ fs[F].content.enc = "")

C5_Step ==
    (Prompting /\ hist'.mismatches = hist.mismatches + 1) =>
        /\ pc' = pc
        /\ fs' = fs
        /\ options' = options
        /\ hist'.round = <<>>

\* C5: under the interactive policy generate and changePassPhrase accept a
\* passphrase only from a round whose two entries are equal and serialize the
\* key with that value; a mismatching round leads back to the two prompts with
\* nothing written, however many came before; an empty pair means no passphrase.
C5_MatchingRoundOnly == [](C5_Inv) /\ [][C5_Step]_vars

\* C5's case: after a mismatching round the operator typed the empty passphrase
\* twice and generate wrote the key.
C5_Witness ==
    /\ Generating
    /\ Succeeded
    /\ hist.mismatches > 0
    /\ hist.round = <<"", "">>
    /\ F \in hist.wrote

\* nothing after the load of the key was done
NothingAfterLoad ==
    /\ hist.round = <<>>
    /\ hist.mismatches = 0
    /\ hist.ser = <<>>
    /\ hist.wrote = {}
    /\ hist.out = <<>>
    /\ fs = fsPre

\* C6: changePassPhrase asks for the old passphrase at most once, and only for
\* an encrypted key with no old passphrase given; it tries a passphrase at most
\* once, and when that fails it ends in an error with no new passphrase
\* collected and nothing written.
C6_SingleAttempt ==
    Changing =>
        /\ hist.passPrompts <= 1
        /\ hist.attempts <= 1
        /\ (hist.passPrompts = 1 =>
                /\ Falsy(argv.pass)
                /\ fromFile(fsPre, F, NoneV).err = "EncryptedKeyError")
        /\ (hist.attempts = 1 /\ fromFile(fsPre, F, options.pass).err # "ok" =>
                Failed /\ NothingAfterLoad)

\* C6's case: the operator was asked, typed a wrong passphrase, and the
\* invocation has ended.
C6_Witness ==
    /\ Changing
    /\ hist.passPrompts = 1
    /\ hist.attempts = 1
    /\ options.pass = "b"
    /\ fromFile(fsPre, F, options.pass).err = "BadKeyError"
    /\ pc = "done"

\* C7, as the claim states it: every serialization of an Ed25519 private key
\* by generate or changePassPhrase is handed the subtype v1.
C7_Ed25519AlwaysV1 ==
    (Generating \/ Changing) =>
        \A i \in DOMAIN hist.ser :
            hist.ser[i].type = "Ed25519" => hist.ser[i].subtype = "v1"

\* C7, amended: an Ed25519 key is serialized with v1 when no subtype is given;
\* a subtype the caller gives is handed to serialization as it is, PEM
\* included, and with PEM the serialization fails, so the invocation ends in
\* an error with nothing written.
C7_Ed25519Subtype ==
    (Generating \/ Changing) =>
        \A i \in DOMAIN hist.ser :
            hist.ser[i].type = "Ed25519" =>
                /\ (argv.subtype = NoneV => hist.ser[i].subtype = "v1")
                /\ (argv.subtype # NoneV => hist.ser[i].subtype = argv.subtype)
                /\ (hist.ser[i].subtype = "PEM" =>
                        Failed /\ hist.wrote = {} /\ fs = fsPre)

\* C7's case: changePassPhrase of an Ed25519 key with the subtype PEM given.
C7_Witness ==
    /\ Changing
    /\ argv.subtype = "PEM"
    /\ hist.ser # <<>>
    /\ hist.ser[1].type = "Ed25519"
    /\ hist.ser[1].subtype = "PEM"

\* the subtype the specification asks for
ExpectedSubtype(given, keyType) ==
    IF given # NoneV THEN given
    ELSE IF keyType = "Ed25519" THEN "v1" ELSE "PEM"

\* C8: the subtype used to serialize the private key is the one the caller
\* gave, and without one v1 for an Ed25519 key and PEM for every other type.
C8_SubtypeResolution ==
    (Generating \/ Changing) =>
        /\ \A i \in DOMAIN hist.ser :
                /\ hist.ser[i].type = key.type
                /\ hist.ser[i].subtype = ExpectedSubtype(argv.subtype, key.type)
        /\ (F \in hist.wrote /\ fs[F].content.kind = "priv" =>
                fs[F].content.subtype = ExpectedSubtype(argv.subtype, key.type))

\* C8's case: generate wrote a DSA key with no subtype given.
C8_Witness ==
    /\ Generating
    /\ key.type = "DSA"
    /\ argv.subtype = NoneV
    /\ F \in hist.wrote
    /\ fs[F].content.subtype = "PEM"

\* what the first load of the key file found
FirstLoad == fromFile(fsPre, hist.loaded, NoneV).err
BadFormat(fmt) == fmt \notin {"md5-hex", "sha256-base64"}

\* C9: every failure of an operation ends the invocation with a message and a
\* status that is not 0; the failed step is not tried again and no later step
\* of the operation runs.
C9_FailuresAreTerminal ==
    /\ (result.failure # "none" => Failed)
    /\ hist.passPrompts <= 1 /\ hist.attempts <= 1 /\ Len(hist.ser) <= 1
    \* key file not found, content that is no key
    /\ (hist.loaded # NoneV /\ FirstLoad \in {"FileNotFoundError", "BadKeyError"} =>
            Failed /\ NothingAfterLoad /\ hist.attempts = 0 /\ hist.passPrompts = 0)
    \* an encrypted key and no passphrase to try
    /\ (hist.op = "fingerprint" /\ hist.loaded # NoneV /\ FirstLoad = "EncryptedKeyError" =>
            Failed /\ NothingAfterLoad)
    \* a wrong passphrase
    /\ (hist.attempts = 1 /\ fromFile(fsPre, F, options.pass).err # "ok" =>
            Failed /\ NothingAfterLoad)
    \* an unsupported key type
    /\ (~Falsy(argv.type) /\ Lower(argv.type) \notin supportedKeyTypes /\ pc # "start" =>
            Failed /\ hist.op = "none" /\ key = NoKey /\ NothingAfterLoad)
    \* an unsupported fingerprint format
    /\ (hist.op = "fingerprint" /\ BadFormat(argv.format) /\ pc # "printFingerprint" =>
            Failed /\ hist.loaded = NoneV /\ NothingAfterLoad)
    /\ (Generating /\ BadFormat(argv.format) /\ PubPath(F) \in hist.wrote
            /\ pc # "saveKey_report" => Failed)
    \* a serialization that fails
    /\ (hist.ser # <<>> /\ toString(key, hist.ser[1].subtype, hist.ser[1].pass) = SerError =>
            Failed /\ hist.wrote = {} /\ fs = fsPre)

\* C9's case: printFingerprint loaded a .pub file that holds no key.
C9_Witness ==
    /\ hist.op = "fingerprint"
    /\ hist.loaded = PubPath(F)
    /\ FirstLoad = "BadKeyError"
    /\ pc = "done"

SamePass(a, b) == (Falsy(a) /\ Falsy(b)) \/ a = b

\* C10: changePassPhrase with the new passphrase equal to the old one, on a
\* file that decrypts with it, leaves a file that decrypts with it and holds
\* the same key, the first time and every time after.
C10_SamePassphraseIdempotent ==
    (Changing /\ SamePass(options.pass, options.newpass)
        /\ fromFile(fsPre, F, options.newpass).err = "ok") =>
            /\ fromFile(fs, F, options.newpass).err = "ok"
            /\ Public(fromFile(fs, F, options.newpass).key)
                 = Public(fromFile(fsPre, F, options.newpass).key)

\* C10's case: the second changePassPhrase in a row with old and new
\* passphrase "a" has rewritten the file.
C10_Witness ==
    /\ Changing
    /\ Succeeded
    /\ runs = 2
    /\ options.pass = "a" /\ options.newpass = "a"
    /\ fsPre[F].content.enc = "a"
    /\ F \in hist.wrote

\* C11: printFingerprint loads the .pub sibling whenever it exists and the
\* file itself only when it does not; it never asks for a passphrase, so with
\* a .pub sibling that holds a key it returns whatever the private file is
\* (also an encrypted one), and the name it prints is the base name of the
\* file it loaded.
C11_PubSiblingPreferred ==
    (hist.op = "fingerprint" /\ hist.loaded # NoneV) =>
        /\ hist.loaded = (IF fsPre[PubPath(F)].exists THEN PubPath(F) ELSE F)
        /\ hist.passPrompts = 0 /\ hist.attempts = 0
        /\ (fsPre[PubPath(F)].exists
                /\ fromString(fsPre[PubPath(F)].content, NoneV).err = "ok" =>
              /\ Succeeded
              /\ hist.out = <<"fingerprint", options.format,
                              fromString(fsPre[PubPath(F)].content, NoneV).key.id,
                              "id.pub">>)
        /\ (Succeeded => hist.out[4] = basename(hist.loaded))

\* C11's case: the fingerprint of an encrypted private key that has a .pub
\* sibling was printed.
C11_Witness ==
    /\ hist.op = "fingerprint"
    /\ Succeeded
    /\ fsPre[F].exists /\ fsPre[F].content.kind = "priv" /\ fsPre[F].content.enc = "a"
    /\ fsPre[PubPath(F)].exists
    /\ hist.out[4] = "id.pub"

Reading == hist.op \in {"fingerprint", "showpub"}

\* C12: printFingerprint and displayPublicKey only read: at every step and in
\* every outcome, return or error, each file exists or not, holds the content
\* and has the permissions it had when the invocation began.
C12_ReadOnly ==
    Reading => fs = fsPre /\ hist.wrote = {}

\* C12's case: displayPublicKey ended in an error on an encrypted key after
\* one prompt, and printFingerprint's file exists too.
C12_Witness ==
    /\ hist.op = "showpub"
    /\ Failed
    /\ hist.passPrompts = 1 /\ hist.attempts = 1
    /\ fs[F].exists /\ fs[PubPath(F)].exists

\* C14: changePassPhrase touches no file but the private-key file: at every
\* step and in every outcome, return or error, the .pub sibling (the only
\* other file) exists or not, holds the content and has the permissions it
\* had when the invocation began, and nothing but the private file is written.
C14_OnlyPrivateFileModified ==
    Changing =>
        /\ \A p \in Paths \ {F} : fs[p] = fsPre[p]
        /\ hist.wrote \subseteq {F}

\* C14's case: changePassPhrase returned after rewriting the private file of
\* a key that has a .pub sibling.
C14_Witness ==
    /\ Changing
    /\ Succeeded
    /\ fs[F] # fsPre[F]
    /\ fs[PubPath(F)].exists

\* C15: whenever generate returns, both files exist, the file at path holds
\* the private serialization of the key this invocation generated and the
\* .pub file the public serialization of the same key: the public key of the
\* key read back from the private file is the key read from the .pub file.
C15_KeyPairConsistent ==
    (Generating /\ Succeeded) =>
        /\ fs[F].exists /\ fs[PubPath(F)].exists
        /\ key.id = runs
        /\ fs[F].content = toString(key, options.subtype, options.pass)
        /\ fs[F].content.kind = "priv"
        /\ fs[PubPath(F)].content = PubBlob(Public(key))
        /\ fromFile(fs, F, options.pass).err = "ok"
        /\ fromFile(fs, PubPath(F), NoneV).err = "ok"
        /\ Public(fromFile(fs, F, options.pass).key) = fromFile(fs, PubPath(F), NoneV).key

\* C15's case: generate returned after overwriting a key pair of another
\* key, the private file encrypted.
C15_Witness ==
    /\ Generating
    /\ Succeeded
    /\ fsPre[F].exists /\ fsPre[PubPath(F)].exists
    /\ fsPre[PubPath(F)].content.kind = "pub"
    /\ fsPre[PubPath(F)].content.id # key.id
    /\ fs[F].content.enc = "a"

\* the private file is the one this invocation wrote and only its owner can
\* read or write it
PrivateInPlace ==
    /\ F \in hist.wrote
    /\ fs[F].exists
    /\ fs[F].content = toString(key, options.subtype, options.pass)
    /\ fs[F].mode = 384
    /\ OwnerOnly(fs[F].mode)

\* C18: generate writes the .pub file only after it has written the private
\* file and restricted it to its owner, and rolls nothing back: in every
\* state in which the .pub file has been written the private file is in
\* place with owner-only permissions, and when the write of the .pub file
\* fails the invocation ends in an error with the new private file in place,
\* owner-only, and the .pub file as it was before.
C18_PublicAfterPrivate ==
    Generating =>
        /\ (PubPath(F) \in hist.wrote \/ pc = "saveKey_public" => PrivateInPlace)
        /\ (result.failure = "IOError" /\ F \in hist.wrote =>
                /\ Failed
                /\ PrivateInPlace
                /\ PubPath(F) \notin hist.wrote
                /\ fs[PubPath(F)] = fsPre[PubPath(F)])

\* C18's case: the write of the .pub file failed after the private file had
\* been written where no file was before.
C18_Witness ==
    /\ Generating
    /\ result.failure = "IOError"
    /\ F \in hist.wrote
    /\ ~fsPre[F].exists
    /\ pc = "done"

\* the operation the command line selects: a key type before --fingerprint
\* before --changepass before --showpub
Selected(a) ==
    IF ~Falsy(a.type)
    THEN IF Lower(a.type) \in supportedKeyTypes THEN "generate" ELSE "none"
    ELSE IF a.fingerprint THEN "fingerprint"
    ELSE IF a.changepass THEN "changepass"
    ELSE IF a.showpub THEN "showpub"
    ELSE "none"

\* what each operation leaves untouched: generate loads and prints no key,
\* the readers serialize and write nothing, changePassPhrase prints no key
OnlyEffectsOf(op) ==
    /\ (op = "generate" => hist.loaded = NoneV /\ hist.out = <<>>)
    /\ (op \in {"fingerprint", "showpub"} => hist.ser = <<>> /\ hist.wrote = {} /\ fs = fsPre)
    /\ (op = "changepass" => hist.out = <<>> /\ hist.wrote \subseteq {F})
    /\ (op = "fingerprint" => hist.out = <<>> \/ hist.out[1] = "fingerprint")
    /\ (op = "showpub" => hist.out = <<>> \/ hist.out[1] = "public")
    /\ (op = "none" => /\ hist.loaded = NoneV /\ hist.out = <<>> /\ hist.ser = <<>>
                       /\ hist.wrote = {} /\ fs = fsPre /\ key = NoKey /\ pc = "done")

\* one invocation runs the one operation the priority selects, and an
\* unsupported key type ends in an error with nothing generated or written
C19_Dispatch ==
    pc # "start" =>
        /\ hist.op = Selected(argv)
        /\ OnlyEffectsOf(hist.op)
        /\ (~Falsy(argv.type) /\ Lower(argv.type) \notin supportedKeyTypes =>
                Failed /\ result.failure = "UnsupportedKeyType")

\* C19: one invocation of run executes at most one operation, chosen by the
\* fixed priority key type (generate), fingerprint, changepass, showpub; an
\* unsupported key type exits with an error without generating or writing
\* anything; with no operation selected the tool prints the help and exits
\* with status 1.
C19_OneActionByPriority ==
    /\ C19_Dispatch
    /\ (pc # "start" /\ Falsy(argv.type) /\ Selected(argv) = "none" =>
            /\ pc = "done"
            /\ result.message = "help"
            /\ result.status = 1)

\* the invocation before this one was a generate with --no-passphrase that
\* returned: the file at path is the private key it wrote
FromGenerateNoPass ==
    /\ hist.prev.op = "generate"
    /\ hist.prev.nopass
    /\ hist.prev.returned

\* C13: displayPublicKey on the private key a generate with --no-passphrase
\* has produced prints the public key of that key and returns without any
\* passphrase prompt; displayPublicKey prompts for a passphrase only when the
\* key file is encrypted and no passphrase was given on the command line,
\* and then at most once.
C13_PromptOnlyWhenEncrypted ==
    hist.op = "showpub" =>
        /\ hist.passPrompts <= 1
        /\ (hist.passPrompts = 1 \/ pc = "displayPublicKey_prompt" =>
                /\ fromFile(fsPre, F, NoneV).err = "EncryptedKeyError"
                /\ Falsy(argv.pass))
        /\ (FromGenerateNoPass =>
                /\ hist.passPrompts = 0 /\ hist.attempts = 0
                /\ pc \in {"displayPublicKey", "done"}
                /\ (pc = "done" =>
                        /\ Succeeded
                        /\ hist.out = <<"public", "openssh", fsPre[F].content.id, F>>
                        /\ fsPre[F].content.id = runs - 1
                        /\ Public(key) = fromFile(fs, PubPath(F), NoneV).key))

\* C13's case: the public key of a key generated with --no-passphrase (and a
\* passphrase on generate's command line) was shown with no passphrase given.
C13_Witness ==
    /\ hist.op = "showpub"
    /\ FromGenerateNoPass
    /\ Succeeded
    /\ argv.pass = NoneV
    /\ hist.passPrompts = 0

IsPrefix(a, b) == Len(a) <= Len(b) /\ a = SubSeq(b, 1, Len(a))

\* testSneakyHiddenDoom: two DoomProtocols, the server sends "DOOM LINE"
SneakyHiddenDoom ==
    test = [server |-> "DoomProtocol", client |-> "DoomProtocol",
            greeting |-> <<"DOOM LINE">>, lose |-> FALSE]

DoomServerLines == <<"Hello 1", "Hello 2", "Hello 3">>
DoomClientLines == <<"DOOM LINE", "Hello 1", "Hello 2", "Hello 3">>

\* C16: with two DoomProtocols joined by loopback and "DOOM LINE" sent by the
\* server when its connection is made, loopback returns; each side receives
\* its lines in order, and when loopback has returned the server has received
\* exactly Hello 1, Hello 2, Hello 3 and the client exactly DOOM LINE,
\* Hello 1, Hello 2, Hello 3: the line the server had already sent reaches
\* the client after the client has asked to close.
C16_DoomExchange ==
    /\ [](SneakyHiddenDoom =>
            /\ IsPrefix(server.lines, DoomServerLines)
            /\ IsPrefix(client.lines, DoomClientLines)
            /\ (loop = "returned" =>
                    /\ server.lines = DoomServerLines
                    /\ client.lines = DoomClientLines))
    /\ (SneakyHiddenDoom ~> loop = "returned")

\* C16's case: loopback has returned from the exchange of the two
\* DoomProtocols, the client having received a fourth line after it lost its
\* connection at the third.
C16_Witness ==
    /\ SneakyHiddenDoom
    /\ loop = "returned"
    /\ clientToServer.shouldLose /\ serverToClient.shouldLose
    /\ Len(client.lines) = DoomLimit + 1
    /\ client.i = DoomLimit + 1

\* testRegularFunction: two SimpleProtocols, the server sends its lines and
\* loses the connection at once
RegularFunction ==
    /\ test.server = "SimpleProtocol" /\ test.client = "SimpleProtocol"
    /\ test.lose
    /\ test.greeting # <<>>

\* C17: lines an endpoint sends and at once follows with loseConnection are
\* delivered to the peer exactly once before loopback returns: the peer's
\* log is at any time a prefix of the lines sent, the sender receives
\* nothing, loopback returns, and when it has returned the peer's log is
\* exactly the lines sent, in order.
C17_SentThenLostIsDelivered ==
    /\ [](RegularFunction =>
            /\ IsPrefix(client.lines, test.greeting)
            /\ server.lines = <<>>
            /\ (loop = "returned" =>
                    /\ client.lines = test.greeting
                    /\ serverToClient.buffer = <<>>))
    /\ (RegularFunction ~> loop = "returned")

\* C17's case: loopback has returned from testRegularFunction with the one
\* line in the client's log.
C17_Witness ==
    /\ RegularFunction
    /\ loop = "returned"
    /\ test.greeting = <<"THIS IS LINE ONE!">>
    /\ client.lines = <<"THIS IS LINE ONE!">>
    /\ server.lines = <<>>

====
